---- MODULE Spec2Model ----
(***************************************************************************)
(* The colour-ramp catalogue of viewer/viewer/pseudocolor.py: the module   *)
(* dictionary RAMP, getRampsFromFile, getRampsForDisplay, getLUTForRamp.   *)
(*                                                                         *)
(* Conventions of the model                                                *)
(*  - A Python dict is a function from its keys (strings) to its values.   *)
(*  - A ramp name is a string.  Every other Python str is modelled by the  *)
(*    sequence of its whitespace-separated tokens, which is what           *)
(*    str.split() returns: '0 255' is <<"0", "255">>, '' is <<>>.          *)
(*  - A float is an exact rational [n |-> numerator, d |-> denominator],   *)
(*    d > 0.  IEEE rounding of numpy's double arithmetic is not modelled.  *)
(*  - getRampsFromFile, as written, has empty "# Quit" branches and does   *)
(*    not compile.  Each "# Quit" is modelled as leaving the function at   *)
(*    that line, with the reason its comment gives; the '=' in the dict    *)
(*    display of line 121 is read as ':'.                                  *)
(***************************************************************************)
EXTENDS Integers, Sequences, FiniteSets, TLC

(***************************************************************************)
(* Bounds of the model.                                                    *)
(***************************************************************************)
\* a descriptor file holds at most MaxPals palettes
MaxPals == 2
\* lutsize ranges over 1..MaxLutSize, and 9, 11, 256 and 257
MaxLutSize == 4
\* the number of threads that call the two read functions at the same time
NumReaders == 2

VARIABLES
    RAMP,          \* the module dictionary RAMP: name -> ramp definition
    rampKeys,      \* the keys of RAMP in the order `for key in RAMP` yields
    keysAreLists,  \* TRUE: dict.keys() is a list (Python 2); FALSE: a view
    last,          \* the most recent call: arguments, RAMP before it, outcome
    readers,       \* per reader thread: its position and its local variables
    panel,         \* the BERAToolsPanel object: its fields and its two buttons
    executor,      \* the BERAToolExecutor object of the panel
    procs,         \* the QProcess objects created so far, and their subprocesses
    log_panel,     \* the LogPanel object: its progress bar
    emitted        \* the handler that ran last and the signals it emitted

panelVars == <<panel, executor, procs, log_panel, emitted>>

vars ==
    <<RAMP, rampKeys, keysAreLists, last, readers, panel, executor, procs,
      log_panel, emitted>>

(***************************************************************************)
(* Lines 36-81: the built-in ramps.                                        *)
(***************************************************************************)
BrewerAuthor == <<"Cynthia", "Brewer">>

BrewerComments ==
    <<"Colours", "from", "www.colorbrewer.org", "by", "Cynthia", "A.",
      "Brewer,", "Geography,", "Pennsylvania", "State", "University.">>

Brewer(type, red, green, blue) ==
    [author |-> BrewerAuthor, comments |-> BrewerComments, type |-> type,
     description |-> [red |-> red, green |-> green, blue |-> blue]]

RampBlues ==
    Brewer(<<"Sequential">>,
        <<"247", "222", "198", "158", "107", "66", "33", "8", "8">>,
        <<"251", "235", "219", "202", "174", "146", "113", "81", "48">>,
        <<"255", "247", "239", "225", "214", "198", "181", "156", "107">>)

RampGreys ==
    Brewer(<<"Sequential">>,
        <<"255", "240", "217", "189", "150", "115", "82", "37", "0">>,
        <<"255", "240", "217", "189", "150", "115", "82", "37", "0">>,
        <<"255", "240", "217", "189", "150", "115", "82", "37", "0">>)

RampRdBu ==
    Brewer(<<"Diverging">>,
        <<"103", "178", "214", "244", "253", "247", "209", "146", "67", "33", "5">>,
        <<"0", "24", "96", "165", "219", "247", "229", "197", "147", "102", "48">>,
        <<"31", "43", "77", "130", "199", "247", "240", "222", "195", "172", "97">>)

RampRdYlBu ==
    Brewer(<<"Diverging">>,
        <<"165", "215", "244", "253", "254", "255", "224", "171", "116", "69", "49">>,
        <<"0", "48", "109", "174", "224", "255", "243", "217", "173", "117", "54">>,
        <<"38", "39", "67", "97", "144", "191", "248", "233", "209", "180", "149">>)

RampRdYlGn ==
    Brewer(<<"Diverging">>,
        <<"165", "215", "244", "253", "254", "255", "217", "166", "102", "26", "0">>,
        <<"0", "48", "109", "174", "224", "255", "239", "217", "189", "152", "104">>,
        <<"38", "39", "67", "97", "139", "191", "139", "106", "99", "80", "55">>)

RampReds ==
    Brewer(<<"Sequential">>,
        <<"255", "254", "252", "252", "251", "239", "203", "165", "103">>,
        <<"245", "224", "187", "146", "106", "59", "24", "15", "0">>,
        <<"240", "210", "161", "114", "74", "44", "29", "21", "13">>)

RampSpectral ==
    Brewer(<<"Diverging">>,
        <<"158", "213", "244", "253", "254", "255", "230", "171", "102", "50", "94">>,
        <<"1", "62", "109", "174", "224", "255", "245", "221", "194", "136", "79">>,
        <<"66", "79", "67", "97", "139", "191", "152", "164", "165", "189", "162">>)

RampYlGnBu ==
    Brewer(<<"Sequential">>,
        <<"255", "237", "199", "127", "65", "29", "34", "37", "8">>,
        <<"255", "248", "233", "205", "182", "145", "94", "52", "29">>,
        <<"217", "177", "180", "187", "196", "192", "168", "148", "88">>)

RampYlOrRd ==
    Brewer(<<"Sequential">>,
        <<"255", "255", "254", "254", "253", "252", "227", "189", "128">>,
        <<"255", "237", "217", "178", "141", "78", "26", "0", "0">>,
        <<"204", "160", "118", "76", "60", "42", "28", "38", "38">>)

\* the dictionary after the module body has run, and its key order
SeedRAMP ==
    ("Blues" :> RampBlues) @@ ("Greys" :> RampGreys) @@ ("RdBu" :> RampRdBu)
    @@ ("RdYlBu" :> RampRdYlBu) @@ ("RdYlGn" :> RampRdYlGn)
    @@ ("Reds" :> RampReds) @@ ("Spectral" :> RampSpectral)
    @@ ("YlGnBu" :> RampYlGnBu) @@ ("YlOrRd" :> RampYlOrRd)

SeedKeys ==
    <<"Blues", "Greys", "RdBu", "RdYlBu", "RdYlGn", "Reds", "Spectral",
      "YlGnBu", "YlOrRd">>

(***************************************************************************)
(* Dictionaries.                                                           *)
(***************************************************************************)
EmptyDict == [k \in {} |-> <<>>]

\* mutant of DictSet: the dict is replaced by one that holds k alone
DictSetAlone(d, k, v) == [x \in {k} |-> v]

\* d[k] = v
DictSet(d, k, v) == [x \in DOMAIN d \cup {k} |-> IF x = k THEN v ELSE d[x]]

\* the key order of a dict after d[k] = v
KeysAfterSet(keys, k) ==
    IF \E i \in 1..Len(keys) : keys[i] = k THEN keys ELSE Append(keys, k)

(***************************************************************************)
(* Numbers in strings: the numeric tokens of the model are the decimal     *)
(* numerals of 0..255; float() raises ValueError on any other token.       *)
(***************************************************************************)
NumeralOf == [v \in 0..255 |-> ToString(v)]

\* float(tok) does not raise
IsNumber(tok) == \E v \in 0..255 : NumeralOf[v] = tok

(***************************************************************************)
(* getRampsFromFile, lines 83-125.  pals is the list json.loads returns:   *)
(* a sequence of dicts.                                                    *)
(***************************************************************************)
\* the reasons of the three kinds of "# Quit" (lines 95, 97, 102 and 104)
QuitStructure == "invalid colour scheme structure"
QuitName == "invalid colour scheme name"
QuitScheme == "invalid colour scheme"
\* an uncaught KeyError leaves the function too
KeyError == "KeyError"

\* the list of line 101
ChannelKeys == <<"red", "green", "blue">>

\* line 101: d.keys() != ['red', 'green', 'blue'], keys being what d.keys()
\* yields, in its order.  A list is compared element by element; a key view
\* (Python 3) is never equal to a list.
KeysDiffer(keys) == IF keysAreLists THEN keys # ChannelKeys ELSE TRUE

\* mutant of FieldOrEmpty: "classification" is read when "type" is absent
FieldOrEmptyAlias(pal, field) ==
    IF field \in DOMAIN pal THEN pal[field]
    ELSE IF field = "type" /\ "classification" \in DOMAIN pal
         THEN pal["classification"]
         ELSE <<>>

\* lines 107-118: an optional field, '' when absent
FieldOrEmpty(pal, field) == IF field \in DOMAIN pal THEN pal[field] ELSE <<>>

\* where the loop body leaves off: quit = "" when the palette was added; key
\* is the key a KeyError names
Leave(R, K, why, key) == [RAMP |-> R, keys |-> K, quit |-> why, key |-> key]

\* mutant of SetChannel: only the numeric tokens of the list are stored
SetChannelNumbersOnly(R, cur_name, c, pal) ==
    DictSet(R, cur_name,
        [R[cur_name] EXCEPT
            !.description =
                DictSet(@, c, SelectSeq(pal["description"][c], IsNumber))])

\* RAMP[cur_name]["description"][c] = pal["description"][c]
SetChannel(R, cur_name, c, pal) ==
    DictSet(R, cur_name,
        [R[cur_name] EXCEPT
            !.description = DictSet(@, c, pal["description"][c])])

\* lines 106-125: the optional fields and the dictionary entry.  The entry is
\* stored with an empty description first (line 121); each of lines 123-125
\* raises KeyError when pal["description"] lacks the channel.
Assemble(R, K, pal) ==
    LET cur_name == pal["name"]
        R0 == DictSet(R, cur_name,
                [author |-> FieldOrEmpty(pal, "author"),
                 comments |-> FieldOrEmpty(pal, "comments"),
                 type |-> FieldOrEmpty(pal, "type"),
                 description |-> EmptyDict])
        K0 == KeysAfterSet(K, cur_name)
        has(c) == c \in DOMAIN pal["description"]
    IN  IF ~has("red") THEN Leave(R0, K0, KeyError, "red")
        ELSE LET R1 == SetChannel(R0, cur_name, "red", pal) IN
        IF ~has("green") THEN Leave(R1, K0, KeyError, "green")
        ELSE LET R2 == SetChannel(R1, cur_name, "green", pal) IN
        IF ~has("blue") THEN Leave(R2, K0, KeyError, "blue")
        ELSE Leave(SetChannel(R2, cur_name, "blue", pal), K0, "", "")

\* mutant of PalBody: no test that the name is new (lines 96-97)
PalBodyNoNameTest(R, K, pal) ==
    IF "name" \notin DOMAIN pal THEN Leave(R, K, QuitStructure, "")
    ELSE LET cur_name == pal["name"] IN
    IF "description" \in DOMAIN pal
    THEN IF cur_name \notin DOMAIN pal
         THEN Leave(R, K, KeyError, cur_name)
         ELSE IF KeysDiffer(pal[cur_name]["description"])
              THEN Leave(R, K, QuitScheme, "")
              ELSE Assemble(R, K, pal)
    ELSE Leave(R, K, QuitScheme, "")

\* mutant of PalBody: a palette without a name goes on under the name ''
PalBodyDefaultName(R, K, pal) ==
    LET named == IF "name" \in DOMAIN pal THEN pal ELSE ("name" :> "") @@ pal
        cur_name == named["name"]
    IN  IF cur_name \in DOMAIN R THEN Leave(R, K, QuitName, "")
        ELSE IF "description" \in DOMAIN named
             THEN IF cur_name \notin DOMAIN named
                  THEN Leave(R, K, KeyError, cur_name)
                  ELSE IF KeysDiffer(named[cur_name]["description"])
                       THEN Leave(R, K, QuitScheme, "")
                       ELSE Assemble(R, K, named)
             ELSE Leave(R, K, QuitScheme, "")

\* lines 91-125: the body of the loop for one palette.  Line 101 looks the
\* description up in pal[cur_name], not in pal: KeyError when pal has no key
\* equal to its own name.  pal[cur_name]["description"] is only asked for its
\* keys, and is modelled by the list keys() yields.
PalBody(R, K, pal) ==
    IF "name" \notin DOMAIN pal THEN Leave(R, K, QuitStructure, "")
    ELSE LET cur_name == pal["name"] IN
    IF cur_name \in DOMAIN R THEN Leave(R, K, QuitName, "")
    ELSE IF "description" \in DOMAIN pal
         THEN IF cur_name \notin DOMAIN pal
              THEN Leave(R, K, KeyError, cur_name)
              ELSE IF KeysDiffer(pal[cur_name]["description"])
                   THEN Leave(R, K, QuitScheme, "")
                   ELSE Assemble(R, K, pal)
         ELSE Leave(R, K, QuitScheme, "")

\* line 90: for pal in pals, from palette i on; at = the palette the function
\* left at, 0 when the loop ran to its end
RECURSIVE ForPals(_, _, _, _)
ForPals(R, K, pals, i) ==
    IF i > Len(pals)
    THEN [RAMP |-> R, keys |-> K, quit |-> "", key |-> "", at |-> 0]
    ELSE LET r == PalBody(R, K, pals[i]) IN
         IF r.quit # "" THEN [RAMP |-> r.RAMP, keys |-> r.keys,
                              quit |-> r.quit, key |-> r.key, at |-> i]
         ELSE ForPals(r.RAMP, r.keys, pals, i + 1)

\* mutant of LoadPals: RAMP is put back as it was when a palette is refused
LoadPalsAllOrNothing(R, K, pals) ==
    LET r == ForPals(R, K, pals, 1) IN
    IF r.quit # "" THEN [r EXCEPT !.RAMP = R, !.keys = K] ELSE r

\* mutant of LoadPals: a refused palette is skipped and the loop goes on;
\* the first refusal is what is reported
RECURSIVE ForPalsSkipping(_, _, _, _, _)
ForPalsSkipping(R, K, pals, i, first) ==
    IF i > Len(pals)
    THEN [RAMP |-> R, keys |-> K, quit |-> first.quit, key |-> first.key,
          at |-> first.at]
    ELSE LET r == PalBody(R, K, pals[i]) IN
         ForPalsSkipping(r.RAMP, r.keys, pals, i + 1,
             IF r.quit # "" /\ first.at = 0
             THEN [quit |-> r.quit, key |-> r.key, at |-> i] ELSE first)

LoadPalsSkipping(R, K, pals) ==
    ForPalsSkipping(R, K, pals, 1, [quit |-> "", key |-> "", at |-> 0])

\* lines 89-125: the loop over the palettes of the file
LoadPals(R, K, pals) == ForPals(R, K, pals, 1)

(***************************************************************************)
(* The palettes descriptor files are drawn from.                           *)
(***************************************************************************)
Up == <<"0", "255">>
Down == <<"255", "128", "0">>
Single == <<"7">>
NonNumeric == <<"0", "x">>

DescGood == [red |-> Up, green |-> Down, blue |-> Single]
DescNonNumeric == [red |-> Up, green |-> NonNumeric, blue |-> Up]
DescNoBlue == [red |-> Up, green |-> Up]
DescExtra == [red |-> Up, green |-> Down, blue |-> Single, alpha |-> Up]

KeysRGB == <<"red", "green", "blue">>
KeysBGR == <<"blue", "green", "red">>

NoMeta == <<>>
FullMeta ==
    ("author" :> <<"A.", "Author">>) @@ ("comments" :> <<"made", "up">>)
    @@ ("type" :> <<"Custom">>)
\* free text that happens to be numbers, no "type", and the classification
\* under the key "classification"
NumbersMeta ==
    ("author" :> Single) @@ ("comments" :> Down)
    @@ ("classification" :> <<"Sequential">>)

\* a palette with a name, the key pal[name] line 101 reads, a description
\* and optional fields
Pal(name, ownKeys, desc, meta) ==
    ("name" :> name) @@ (name :> [description |-> ownKeys])
    @@ ("description" :> desc) @@ meta

\* a palette as the descriptor format has it: no key named by its name
PlainPal(name, desc, meta) ==
    ("name" :> name) @@ ("description" :> desc) @@ meta

Palettes ==
    { Pal("NewA", KeysRGB, DescGood, NoMeta),
      Pal("NewA", KeysRGB, DescGood, FullMeta),
      Pal("NewA", KeysRGB, DescExtra, NoMeta),
      Pal("NewB", KeysRGB, DescNonNumeric, NumbersMeta),
      Pal("NewB", KeysRGB, DescNoBlue, NoMeta),
      Pal("NewA", KeysBGR, DescGood, NoMeta),
      PlainPal("NewA", DescGood, NoMeta),
      PlainPal("Blues", DescGood, NoMeta),
      Pal("Greys", KeysRGB, DescGood, FullMeta),
      ("name" :> "NewB") @@ FullMeta,
      ("description" :> DescGood) @@ FullMeta }

RECURSIVE SeqsUpTo(_, _)
SeqsUpTo(S, n) ==
    IF n = 0 THEN {<<>>}
    ELSE LET shorter == SeqsUpTo(S, n - 1) IN
         shorter \cup {Append(q, e) : q \in shorter, e \in S}

Files == SeqsUpTo(Palettes, MaxPals)

(***************************************************************************)
(* getRampsForDisplay, lines 127-146.                                      *)
(***************************************************************************)
\* lines 133-139: the keys of rampDict in the order they were first set,
\* going through the keys of RAMP from the i-th on
RECURSIVE RampTypes(_, _, _, _)
RampTypes(R, K, i, seen) ==
    IF i > Len(K) THEN seen
    ELSE LET rampType == R[K[i]].type IN
         RampTypes(R, K, i + 1,
             IF \E j \in 1..Len(seen) : seen[j] = rampType
             THEN seen ELSE Append(seen, rampType))

\* mutant of NamesOfType: every name is put under every type
NamesOfTypeAll(R, K, rampType) == K

\* rampDict[rampType]: the names of that type, in the order of the keys
NamesOfType(R, K, rampType) ==
    SelectSeq(K, LAMBDA key : R[key].type = rampType)

\* "(%s)" % rampType, on the tokens of rampType
InParentheses(toks) ==
    IF Len(toks) = 0 THEN <<"()">>
    ELSE IF Len(toks) = 1 THEN <<"(" \o toks[1] \o ")">>
    ELSE <<"(" \o toks[1]>> \o SubSeq(toks, 2, Len(toks) - 1)
         \o <<toks[Len(toks)] \o ")">>

\* line 144: "%s (%s)" % (name, rampType)
Title(name, rampType) == <<name>> \o InParentheses(rampType)

\* lines 141-145: the (name, title) pairs, type by type from the t-th on
RECURSIVE Display(_, _, _, _)
Display(R, K, types, t) ==
    IF t > Len(types) THEN <<>>
    ELSE LET names == NamesOfType(R, K, types[t]) IN
         [i \in 1..Len(names) |-> <<names[i], Title(names[i], types[t])>>]
         \o Display(R, K, types, t + 1)

\* mutant of RampsForDisplay: the names are not grouped by type
RampsForDisplayUngrouped(R, K) ==
    [i \in 1..Len(K) |-> <<K[i], Title(K[i], R[K[i]].type)>>]

RampsForDisplay(R, K) == Display(R, K, RampTypes(R, K, 1, <<>>), 1)

(***************************************************************************)
(* getLUTForRamp, lines 148-168.                                           *)
(***************************************************************************)
Rat(n, d) == IF d < 0 THEN [n |-> -n, d |-> -d] ELSE [n |-> n, d |-> d]
RAdd(a, b) == Rat(a.n * b.d + b.n * a.d, a.d * b.d)
RSub(a, b) == Rat(a.n * b.d - b.n * a.d, a.d * b.d)
RMul(a, b) == Rat(a.n * b.n, a.d * b.d)
RDiv(a, b) == Rat(a.n * b.d, a.d * b.n)
RLess(a, b) == a.n * b.d < b.n * a.d
REq(a, b) == a.n * b.d = b.n * a.d

\* line 156: float(x)
Float(tok) == Rat(CHOOSE v \in 0..255 : NumeralOf[v] = tok, 1)

\* numpy.linspace(start, stop, num): num evenly spaced values, both ends
\* included; only start when num = 1
Linspace(start, stop, num) ==
    [i \in 1..num |->
        IF num = 1 THEN Rat(start, 1)
        ELSE Rat(start * (num - 1) + (i - 1) * (stop - start), num - 1)]

\* numpy.interp for one x: the end values outside xp, fp[j] on a sample
\* point, else the line through the two samples around x
Interp1(x, xp, fp) ==
    LET n == Len(xp) IN
    IF RLess(xp[n], x) THEN fp[n]
    ELSE IF RLess(x, xp[1]) THEN fp[1]
    ELSE LET j == CHOOSE k \in 1..n :
                    /\ ~RLess(x, xp[k])
                    /\ k < n => RLess(x, xp[k + 1])
         IN  IF j = n THEN fp[j]
             ELSE IF REq(xp[j], x) THEN fp[j]
             ELSE LET slope == RDiv(RSub(fp[j + 1], fp[j]),
                                    RSub(xp[j + 1], xp[j]))
                  IN  RAdd(RMul(slope, RSub(x, xp[j])), fp[j])

\* line 166: numpy.interp(xinterp, xobs, yobs)
Interp(x, xp, fp) == [k \in 1..Len(x) |-> Interp1(x[k], xp, fp)]

\* the integer part of a rational (towards zero)
Trunc(a) == IF a.n >= 0 THEN a.n \div a.d ELSE -((-a.n) \div a.d)

\* line 168: astype(numpy.uint8)
AsUint8(y) == [k \in 1..Len(y) |-> Trunc(y[k]) % 256]

Raise(exc, key) == [err |-> exc, key |-> key, value |-> <<>>]

LUTForRamp(R, code, name, lutsize) ==
    IF name \notin DOMAIN R THEN Raise(KeyError, name)
    \* line 153 looks code up in RAMP[name], whose keys are author, comments,
    \* type and description
    ELSE IF code \notin DOMAIN R[name] THEN Raise(KeyError, code)
    \* a dict has no split()
    ELSE IF code = "description" THEN Raise("AttributeError", "")
    ELSE LET colstr == R[name][code] IN
    IF \E i \in 1..Len(colstr) : ~IsNumber(colstr[i])
    THEN Raise("ValueError", "")
    ELSE LET colList == [i \in 1..Len(colstr) |-> Float(colstr[i])]
             xobs == Linspace(0, 255, Len(colList))
             yobs == colList
             xinterp == Linspace(0, 255, lutsize)
         IN  \* numpy.interp refuses an empty xp
             IF Len(xobs) = 0 THEN Raise("ValueError", "")
             ELSE [err |-> "", key |-> "",
                   value |-> AsUint8(Interp(xinterp, xobs, yobs))]

\* the arguments getLUTForRamp is called with
Codes == {"red", "green", "blue", "author", "comments", "type",
          "description", "alpha"}
LutNames == {"Blues", "Greys", "RdBu", "RdYlBu", "RdYlGn", "Reds", "Spectral",
             "YlGnBu", "YlOrRd", "NewA", "NewB", "DoesNotExist"}
\* 9 and 11 are the numbers of control points of the built-in ramps
LutSizes == (1..MaxLutSize) \cup {9, 11, 256, 257}

(***************************************************************************)
(* The calls.  last holds the outcome of a call until the caller has taken *)
(* it; the next call is made after that.                                   *)
(***************************************************************************)
Call(op, pals, code, name, lutsize, pre, err, key, at, value) ==
    [op |-> op, pals |-> pals, code |-> code, name |-> name,
     lutsize |-> lutsize, pre |-> pre, err |-> err, key |-> key, at |-> at,
     value |-> value]

NoCall == Call("", <<>>, "", "", 0, EmptyDict, "", "", 0, <<>>)

\* before a viewer window is created there are no panels: the objects of
\* the plugin, not yet constructed
NoPanel ==
    [selected_tool |-> "None", selected_tool_api |-> "None",
     param_widgets |-> <<>>, current_process |-> 0, run_btn |-> FALSE,
     stop_btn |-> FALSE]

NoExecutor == [beratools_dir |-> FALSE, cpu_cores |-> 0]

NoLogPanel == [progress_bar |-> 0]

\* no handler has run.  given holds the arguments of a call made from
\* outside, status, output and progress the signals emitted, errors the
\* validation errors shown, printed the output files printed, command the
\* call of build_command, raised the exception that ended the handler
Quiet ==
    [handler |-> "", given |-> <<>>, status |-> <<>>, output |-> <<>>,
     progress |-> <<>>, errors |-> <<>>, printed |-> <<>>,
     command |-> [called |-> FALSE, tool_api |-> "", parameters |-> <<>>,
                  program |-> "None", args |-> <<>>],
     raised |-> ""]

\* the reader threads
Readers == 1..NumReaders

\* a reader that is in neither function
Idle ==
    [pc |-> "idle", op |-> "", code |-> "", name |-> "", lutsize |-> 0,
     i |-> 0, rampDict |-> <<>>, colstr |-> <<>>, err |-> "", key |-> "",
     value |-> <<>>]

Init ==
    /\ RAMP = SeedRAMP
    /\ rampKeys = SeedKeys
    /\ keysAreLists \in BOOLEAN
    /\ last = NoCall
    /\ readers = [r \in Readers |-> Idle]
    /\ panel = NoPanel
    /\ executor = NoExecutor
    /\ procs = <<>>
    /\ log_panel = NoLogPanel
    /\ emitted = Quiet

getRampsFromFile(pals) ==
    LET r == LoadPals(RAMP, rampKeys, pals) IN
    /\ last = NoCall
    /\ RAMP' = r.RAMP
    /\ rampKeys' = r.keys
    /\ last' = Call("getRampsFromFile", pals, "", "", 0, RAMP, r.quit, r.key,
                    r.at, <<>>)
    /\ UNCHANGED <<keysAreLists, readers, panelVars>>

getRampsForDisplay ==
    /\ last = NoCall
    /\ last' = Call("getRampsForDisplay", <<>>, "", "", 0, RAMP, "", "", 0,
                    RampsForDisplay(RAMP, rampKeys))
    /\ UNCHANGED <<RAMP, rampKeys, keysAreLists, readers, panelVars>>

\* mutant of getLUTForRamp: the table is kept in RAMP[name][code], as text
getLUTForRampCaching(code, name, lutsize) ==
    LET r == LUTForRamp(RAMP, code, name, lutsize)
        text == [i \in 1..Len(r.value) |-> NumeralOf[r.value[i]]]
    IN
    /\ last = NoCall
    /\ last' = Call("getLUTForRamp", <<>>, code, name, lutsize, RAMP, r.err,
                    r.key, 0, r.value)
    /\ RAMP' = IF r.err = ""
               THEN DictSet(RAMP, name, DictSet(RAMP[name], code, text))
               ELSE RAMP
    /\ UNCHANGED <<rampKeys, keysAreLists, readers, panelVars>>

getLUTForRamp(code, name, lutsize) ==
    LET r == LUTForRamp(RAMP, code, name, lutsize) IN
    /\ last = NoCall
    /\ last' = Call("getLUTForRamp", <<>>, code, name, lutsize, RAMP, r.err,
                    r.key, 0, r.value)
    /\ UNCHANGED <<RAMP, rampKeys, keysAreLists, readers, panelVars>>

\* the caller takes the outcome
Return ==
    /\ last # NoCall
    /\ last' = NoCall
    /\ UNCHANGED <<RAMP, rampKeys, keysAreLists, readers, panelVars>>

Next ==
    \/ \E pals \in Files : getRampsFromFile(pals)
    \/ getRampsForDisplay
    \/ \E code \in Codes, name \in LutNames, lutsize \in LutSizes :
          getLUTForRamp(code, name, lutsize)
    \/ Return

Spec == Init /\ [][Next]_vars

(***************************************************************************)
(* The two read functions called from several threads at once.  A thread   *)
(* is switched between two reads of RAMP: getRampsForDisplay takes one     *)
(* step per key of the loop of lines 134-139 and one for lines 141-146,    *)
(* getLUTForRamp one for the look-up of line 153 and one for lines         *)
(* 156-168, which work on its local variables.  getRampsFromFile runs when *)
(* no reader is inside a function.                                         *)
(***************************************************************************)
\* the descriptor files and the arguments of this specification
ReaderFiles ==
    { <<Pal("NewA", KeysRGB, DescGood, FullMeta)>>,
      <<Pal("NewB", KeysRGB, DescNonNumeric, NumbersMeta)>> }

ReaderCalls ==
    { <<"red", "Blues", 2>>, <<"author", "NewB", 3>>, <<"type", "Greys", 2>>,
      <<"red", "DoesNotExist", 2>> }

AllIdle == \A r \in Readers : readers[r].pc = "idle"

\* lines 135-139: rampDict as a list of (type, names), in the order in which
\* the types were put into it
AddToRampDict(rampDict, rampType, key) ==
    IF \E t \in 1..Len(rampDict) : rampDict[t].type = rampType
    THEN [t \in 1..Len(rampDict) |->
             IF rampDict[t].type = rampType
             THEN [rampDict[t] EXCEPT !.names = Append(@, key)]
             ELSE rampDict[t]]
    ELSE Append(rampDict, [type |-> rampType, names |-> <<key>>])

\* lines 142-145: the (name, title) pairs of rampDict from its t-th type on
RECURSIVE DisplayOf(_, _)
DisplayOf(rampDict, t) ==
    IF t > Len(rampDict) THEN <<>>
    ELSE [n \in 1..Len(rampDict[t].names) |->
             <<rampDict[t].names[n],
               Title(rampDict[t].names[n], rampDict[t].type)>>]
         \o DisplayOf(rampDict, t + 1)

\* a merge between reads
MergeBetweenReads(pals) ==
    /\ AllIdle
    /\ getRampsFromFile(pals)

\* lines 127-133: a reader enters getRampsForDisplay, rampDict = {}
EnterDisplay(r) ==
    /\ last = NoCall
    /\ readers[r].pc = "idle"
    /\ readers' = [readers EXCEPT ![r] =
                      [Idle EXCEPT !.pc = "scan", !.op = "getRampsForDisplay",
                                   !.i = 1]]
    /\ UNCHANGED <<RAMP, rampKeys, keysAreLists, last, panelVars>>

\* mutant of ScanKey: rampDict is one dictionary of the module, which every
\* reader inside the loop fills
ScanKeyShared(r) ==
    /\ readers[r].pc = "scan"
    /\ readers[r].i <= Len(rampKeys)
    /\ LET key == rampKeys[readers[r].i] IN
       readers' = [q \in Readers |->
                     IF readers[q].pc = "scan"
                     THEN [readers[q] EXCEPT
                             !.rampDict = AddToRampDict(@, RAMP[key].type, key),
                             !.i = IF q = r THEN @ + 1 ELSE @]
                     ELSE readers[q]]
    /\ UNCHANGED <<RAMP, rampKeys, keysAreLists, last, panelVars>>

\* lines 134-139: one turn of the loop over the keys of RAMP
ScanKey(r) ==
    /\ readers[r].pc = "scan"
    /\ readers[r].i <= Len(rampKeys)
    /\ LET key == rampKeys[readers[r].i] IN
       readers' = [readers EXCEPT
                     ![r].rampDict = AddToRampDict(@, RAMP[key].type, key),
                     ![r].i = @ + 1]
    /\ UNCHANGED <<RAMP, rampKeys, keysAreLists, last, panelVars>>

\* lines 141-146: the loop is over, the list is built from rampDict
BuildDisplay(r) ==
    /\ readers[r].pc = "scan"
    /\ readers[r].i > Len(rampKeys)
    /\ readers' = [readers EXCEPT
                     ![r].pc = "done",
                     ![r].value = DisplayOf(readers[r].rampDict, 1)]
    /\ UNCHANGED <<RAMP, rampKeys, keysAreLists, last, panelVars>>

\* line 148: a reader enters getLUTForRamp
EnterLUT(r, code, name, lutsize) ==
    /\ last = NoCall
    /\ readers[r].pc = "idle"
    /\ readers' = [readers EXCEPT ![r] =
                      [Idle EXCEPT !.pc = "read", !.op = "getLUTForRamp",
                                   !.code = code, !.name = name,
                                   !.lutsize = lutsize]]
    /\ UNCHANGED <<RAMP, rampKeys, keysAreLists, last, panelVars>>

\* line 153: colstr = RAMP[name][code], or the KeyError of the look-up
ReadColstr(r) ==
    /\ readers[r].pc = "read"
    /\ LET name == readers[r].name
           code == readers[r].code
       IN  readers' =
             IF name \notin DOMAIN RAMP
             THEN [readers EXCEPT ![r].pc = "done", ![r].err = KeyError,
                                  ![r].key = name]
             ELSE IF code \notin DOMAIN RAMP[name]
                  THEN [readers EXCEPT ![r].pc = "done", ![r].err = KeyError,
                                       ![r].key = code]
                  ELSE [readers EXCEPT ![r].pc = "compute",
                                       ![r].colstr = RAMP[name][code]]
    /\ UNCHANGED <<RAMP, rampKeys, keysAreLists, last, panelVars>>

\* lines 156-168, on the reader's colstr
ComputeLUT(r) ==
    /\ readers[r].pc = "compute"
    /\ LET name == readers[r].name
           code == readers[r].code
           own == [n \in {name} |-> [c \in {code} |-> readers[r].colstr]]
           res == LUTForRamp(own, code, name, readers[r].lutsize)
       IN  readers' = [readers EXCEPT ![r].pc = "done", ![r].err = res.err,
                                      ![r].key = res.key,
                                      ![r].value = res.value]
    /\ UNCHANGED <<RAMP, rampKeys, keysAreLists, last, panelVars>>

\* the caller of the reader takes the outcome
LeaveRead(r) ==
    /\ readers[r].pc = "done"
    /\ readers' = [readers EXCEPT ![r] = Idle]
    /\ UNCHANGED <<RAMP, rampKeys, keysAreLists, last, panelVars>>

NextReaders ==
    \/ \E pals \in ReaderFiles : MergeBetweenReads(pals)
    \/ Return
    \/ \E r \in Readers : EnterDisplay(r)
    \/ \E r \in Readers : ScanKey(r)
    \/ \E r \in Readers : BuildDisplay(r)
    \/ \E r \in Readers, c \in ReaderCalls : EnterLUT(r, c[1], c[2], c[3])
    \/ \E r \in Readers : ReadColstr(r)
    \/ \E r \in Readers : ComputeLUT(r)
    \/ \E r \in Readers : LeaveRead(r)

SpecReaders == Init /\ [][NextReaders]_vars

(***************************************************************************)
(* The module body run again (a reload of the module): line 36 binds RAMP  *)
(* to a new empty dict, lines 37-81 put the nine built-in ramps into it.   *)
(***************************************************************************)
\* mutant of seed: without line 36, the built-in ramps are written into the
\* RAMP there is
seedKeeping ==
    /\ last = NoCall
    /\ RAMP' = [k \in DOMAIN RAMP \cup DOMAIN SeedRAMP |->
                  IF k \in DOMAIN SeedRAMP THEN SeedRAMP[k] ELSE RAMP[k]]
    /\ rampKeys' = rampKeys
    /\ last' = Call("seed", <<>>, "", "", 0, RAMP, "", "", 0, <<>>)
    /\ UNCHANGED <<keysAreLists, readers, panelVars>>

seed ==
    /\ last = NoCall
    /\ RAMP' = SeedRAMP
    /\ rampKeys' = SeedKeys
    /\ last' = Call("seed", <<>>, "", "", 0, RAMP, "", "", 0, <<>>)
    /\ UNCHANGED <<keysAreLists, readers, panelVars>>

NextReseed ==
    \/ Next
    \/ seed

SpecReseed == Init /\ [][NextReseed]_vars

(***************************************************************************)
(* The BERATools plugin: tuiview/plugins/beratools_panel.py (the panels),  *)
(* beratools_widgets.py (the parameter widgets), plugins/beratools_data.py *)
(* (the metadata) and plugins/beratools_executor.py (the command).         *)
(*                                                                         *)
(*  - A Python value is [kind, n, s]: an int n, a float of n tenths, the   *)
(*    bool n = 1 or 0, the str s, or None.  Python's None object is also   *)
(*    written "None" where the field holds a name.                         *)
(*  - A dict that is iterated is the sequence of its items in insertion    *)
(*    order.                                                               *)
(*  - A message is the sequence of its fixed text and the values put into  *)
(*    it.                                                                  *)
(*  - Each slot runs to its end before the next event is taken.            *)
(***************************************************************************)
\* a QProcess object is not created once MaxRuns have been
MaxRuns == 2

PyInt(n) == [kind |-> "int", n |-> n, s |-> ""]
PyFloat(tenths) == [kind |-> "float", n |-> tenths, s |-> ""]
PyBool(b) == [kind |-> "bool", n |-> IF b THEN 1 ELSE 0, s |-> ""]
PyStr(s) == [kind |-> "str", n |-> 0, s |-> s]
PyNone == [kind |-> "none", n |-> 0, s |-> ""]

\* bool(value): what `if value` and `not value` test
Truthy(value) ==
    CASE value.kind = "str" -> value.s # ""
      [] value.kind = "none" -> FALSE
      [] OTHER -> value.n # 0

\* the digits of a float of n tenths, n >= 0
FloatDigits(n) == ToString(n \div 10) \o "." \o ToString(n % 10)

\* str(value)
StrOf(value) ==
    CASE value.kind = "str" -> value.s
      [] value.kind = "none" -> "None"
      [] value.kind = "bool" -> IF value.n = 1 THEN "True" ELSE "False"
      [] value.kind = "int" -> ToString(value.n)
      [] value.kind = "float" -> FloatDigits(value.n)

(***************************************************************************)
(* beratools_data.py: the metadata of beratools.json, which is not part of *)
(* the repository.  A tool has a name, a tool_api and parameters; a        *)
(* parameter has a variable, a label, a type, and optional, output and     *)
(* default.                                                                *)
(***************************************************************************)
Param(variable, label, type, optional, output, default) ==
    [variable |-> variable, label |-> label, type |-> type,
     optional |-> optional, output |-> output, default |-> default]

ToolDefs ==
    [tool_name \in {"Centerline", "Footprint", "Legacy", "Bare"} |->
        CASE tool_name = "Centerline" ->
               [tool_api |-> "centerline",
                parameters |->
                  <<Param("width", "Width", "number", FALSE, FALSE, PyInt(5)),
                    Param("out_line", "Output", "file", TRUE, TRUE,
                          PyStr("out.shp"))>>]
          [] tool_name = "Footprint" ->
               [tool_api |-> "footprint",
                parameters |->
                  <<Param("in_file", "Input", "file", FALSE, FALSE,
                          PyStr("in.tif"))>>]
          [] tool_name = "Legacy" ->
               [tool_api |-> "",
                parameters |->
                  <<Param("note", "Note", "text", TRUE, FALSE, PyStr(""))>>]
          [] tool_name = "Bare" ->
               [tool_api |-> "bare", parameters |-> <<>>]]

\* the categories of the tree, which are not tools
Categories == {"Mapping"}

\* the files there are, and the tool scripts there are under tools/
ExistingFiles == {"in.tif"}
ScriptsPresent == {"centerline", "bare"}

\* what the user can put into the widget of a parameter
EditValues(param_def) ==
    CASE param_def.type = "number" -> {PyInt(0)}
      [] param_def.type = "file" /\ param_def.output -> {PyStr("")}
      [] param_def.type = "file" -> {PyStr(""), PyStr("gone.tif")}
      [] OTHER -> {}

\* lines 74-92 of beratools_data.py: get_tool, None for an unknown name
HasTool(tool_name) == tool_name \in DOMAIN ToolDefs

\* lines 94-107 of beratools_data.py
ManagerToolParameters(tool_name) ==
    IF HasTool(tool_name) THEN ToolDefs[tool_name].parameters ELSE <<>>

(***************************************************************************)
(* beratools_widgets.py.  A widget is its variable and its value, which    *)
(* is the default of the parameter until the user changes the input.       *)
(***************************************************************************)
WidgetTypes == {"text", "number", "file", "directory", "list"}

\* lines 57-64: ParameterWidget.__init__
NewWidget(param_def) ==
    [variable |-> param_def.variable, value |-> param_def.default]

\* get_value of every widget class: {self.variable: self.value}
WidgetGetValue(widget) == <<widget.variable, widget.value>>

(***************************************************************************)
(* beratools_panel.py: the functions of BERAToolsPanel that only read.     *)
(***************************************************************************)
\* lines 266-283: the widgets of a tool, for the parameters that have a
\* supported type and a variable
RECURSIVE WidgetsFor(_, _)
WidgetsFor(parameters, i) ==
    IF i > Len(parameters) THEN <<>>
    ELSE (IF parameters[i].type \in WidgetTypes /\ parameters[i].variable # ""
          THEN <<NewWidget(parameters[i])>> ELSE <<>>)
         \o WidgetsFor(parameters, i + 1)

\* lines 293-308: get_tool_parameters; None and {} are both the empty
\* sequence, the callers test `not params`
GetToolParameters(p) ==
    [i \in 1..Len(p.param_widgets) |-> WidgetGetValue(p.param_widgets[i])]

HasWidget(p, variable) ==
    \E i \in 1..Len(p.param_widgets) : p.param_widgets[i].variable = variable

WidgetOf(p, variable) ==
    p.param_widgets[CHOOSE i \in 1..Len(p.param_widgets) :
                       p.param_widgets[i].variable = variable]

\* float(value) of line 405 succeeds
IsFloatable(value) == value.kind \in {"int", "float", "bool"}

\* lines 375-410: the errors of one parameter
ErrorsOf(p, param_def) ==
    IF ~HasWidget(p, param_def.variable)
    THEN IF ~param_def.optional
         THEN <<<<"Required parameter missing", param_def.label>>>>
         ELSE <<>>
    ELSE LET value == WidgetOf(p, param_def.variable).value IN
         (IF ~param_def.optional /\ ~Truthy(value)
          THEN <<<<"Required parameter empty", param_def.label>>>>
          ELSE <<>>)
         \o (IF param_def.type = "file" /\ Truthy(value)
                 /\ ~param_def.output /\ value.s \notin ExistingFiles
              THEN <<<<"Input file does not exist", param_def.label>>>>
              ELSE IF param_def.type = "number" /\ Truthy(value)
                      /\ ~IsFloatable(value)
                   THEN <<<<"Invalid number format", param_def.label>>>>
                   ELSE <<>>)

RECURSIVE ErrorsFrom(_, _, _)
ErrorsFrom(p, tool_params, i) ==
    IF i > Len(tool_params) THEN <<>>
    ELSE ErrorsOf(p, tool_params[i]) \o ErrorsFrom(p, tool_params, i + 1)

\* lines 360-412: _validate_parameters
ValidateParameters(p) ==
    IF ~HasTool(p.selected_tool)
    THEN <<<<"Tool definition not found", "">>>>
    ELSE ErrorsFrom(p, ToolDefs[p.selected_tool].parameters, 1)

\* a chunk of subprocess output is a sequence of tokens: a number followed
\* by a % sign, in tenths; a % sign alone; other text
Pct(tenths) == [kind |-> "pct", tenths |-> tenths]
Text == [kind |-> "text", tenths |-> 0]
PercentSign == [kind |-> "%", tenths |-> 0]

IsPct(token) == token.kind = "pct"

\* mutant of ParseProgress: the range of line 513 is not tested
ParseProgressUnchecked(output_text) ==
    LET matches == SelectSeq(output_text, IsPct) IN
    IF matches = <<>> THEN <<>>
    ELSE <<matches[Len(matches)].tenths \div 10>>

\* lines 497-517: the progress_updated signals of _parse_progress
ParseProgress(output_text) ==
    LET matches == SelectSeq(output_text, IsPct) IN
    IF matches = <<>> THEN <<>>
    ELSE LET progress == matches[Len(matches)].tenths \div 10 IN
         IF 0 <= progress /\ progress <= 100 THEN <<progress>> ELSE <<>>

(***************************************************************************)
(* beratools_executor.py.                                                  *)
(***************************************************************************)
\* json.dumps of a value that is a bool, an int, a float or a str
JsonOf(value) ==
    CASE value.kind = "str" -> "\"" \o value.s \o "\""
      [] value.kind = "bool" -> IF value.n = 1 THEN "true" ELSE "false"
      [] value.kind = "int" -> ToString(value.n)
      [] value.kind = "float" -> FloatDigits(value.n)

\* mutant of Clean: every value is converted to a string
CleanAllStrings(value) == PyStr(StrOf(value))

\* lines 79-84: bool, int and float are kept, the others are str(value)
Clean(value) ==
    IF value.kind \in {"bool", "int", "float"} THEN value
    ELSE PyStr(StrOf(value))

\* line 86: json.dumps of the dict of the cleaned parameters
RECURSIVE JsonItems(_, _)
JsonItems(parameters, i) ==
    IF i > Len(parameters) THEN ""
    ELSE (IF i > 1 THEN ", " ELSE "")
         \o "\"" \o parameters[i][1] \o "\": "
         \o JsonOf(Clean(parameters[i][2]))
         \o JsonItems(parameters, i + 1)

JsonDumps(parameters) == "{" \o JsonItems(parameters, 1) \o "}"

\* line 68: beratools_dir / "tools" / f"{tool_api}.py"
ToolScript(tool_api) == "beratools/tools/" \o tool_api \o ".py"

\* a call of build_command and what it returned; (None, None) is the
\* program "None" with no arguments
Built(tool_api, parameters, program, args) ==
    [called |-> TRUE, tool_api |-> tool_api, parameters |-> parameters,
     program |-> program, args |-> args]

\* build_command was not called
NoCommand == Quiet.command

\* mutant of BuildCommand: the number of cores is always the default
BuildCommandDefaultCores(ex, tool_api, parameters) ==
    IF ~ex.beratools_dir THEN Built(tool_api, parameters, "None", <<>>)
    ELSE IF tool_api \notin ScriptsPresent
    THEN Built(tool_api, parameters, "None", <<>>)
    ELSE Built(tool_api, parameters, "python",
               <<ToolScript(tool_api), "-i", JsonDumps(parameters), "-p",
                 "-1", "-c", "GUI", "-l", "INFO">>)

\* lines 51-103: build_command
BuildCommand(ex, tool_api, parameters) ==
    IF ~ex.beratools_dir THEN Built(tool_api, parameters, "None", <<>>)
    ELSE IF tool_api \notin ScriptsPresent
    THEN Built(tool_api, parameters, "None", <<>>)
    ELSE Built(tool_api, parameters, "python",
               <<ToolScript(tool_api), "-i", JsonDumps(parameters), "-p",
                 ToString(ex.cpu_cores), "-c", "GUI", "-l", "INFO">>)

(***************************************************************************)
(* The objects as constructed when a viewer window is created              *)
(* (_on_viewer_created, lines 83-103 of beratools_plugin.py).              *)
(***************************************************************************)
\* lines 46-133 of beratools_panel.py: a QPushButton is enabled unless
\* disabled, Stop is disabled at line 132
NewPanel ==
    [selected_tool |-> "None", selected_tool_api |-> "None",
     param_widgets |-> <<>>, current_process |-> 0, run_btn |-> TRUE,
     stop_btn |-> FALSE]

\* lines 14-17 of beratools_executor.py
NewExecutor(found) == [beratools_dir |-> found, cpu_cores |-> -1]

\* lines 619-622 of beratools_panel.py
NewLogPanel == [progress_bar |-> 0]

\* handler ran and emitted nothing
Ran(handler) == [Quiet EXCEPT !.handler = handler]

\* a QProcess object: the tool selected when it was created, the state of
\* its subprocess, its exit code, and how many times its finished signal was
\* handled
NewProcess(tool, state) ==
    [tool |-> tool, state |-> state, exit_code |-> 0, handled |-> 0]

ExitCodes == {0, 1}
Cores == {-1, 1, 4, 8}

Chunks ==
    { <<Text>>, <<Text, PercentSign>>, <<Pct(1000)>>,
      <<Pct(100), Text, Pct(999)>>, <<Pct(1005)>>, <<Pct(1010)>>,
      <<Pct(999), Pct(2500)>>, <<Pct(2500), Pct(999)>> }

\* parameters build_command is called with from outside the panel
CommandInputs ==
    { <<>>,
      <<<<"flag", PyBool(TRUE)>>, <<"ratio", PyFloat(25)>>,
        <<"mode", PyNone>>>>,
      <<<<"n", PyInt(3)>>, <<"name", PyStr("a")>>>>,
      <<<<"flag", PyBool(FALSE)>>>>,
      <<<<"n", PyInt(0)>>, <<"name", PyStr("")>>>> }

InitPanel ==
    /\ RAMP = SeedRAMP
    /\ rampKeys = SeedKeys
    /\ keysAreLists = FALSE
    /\ last = NoCall
    /\ readers = [r \in Readers |-> Idle]
    /\ panel = NewPanel
    /\ \E found \in BOOLEAN : executor = NewExecutor(found)
    /\ procs = <<>>
    /\ log_panel = NewLogPanel
    /\ emitted = [Ran("__init__") EXCEPT !.status = <<<<"Loaded tools">>>>]

catalogVars == <<RAMP, rampKeys, keysAreLists, last, readers>>

\* lines 218-250 and 259-283: a click on an item of the tree
OnToolSelected(item) ==
    /\ panel' = IF item \in Categories THEN panel
                ELSE [panel EXCEPT
                        !.selected_tool = item,
                        !.selected_tool_api =
                            IF HasTool(item) THEN ToolDefs[item].tool_api
                            ELSE @,
                        !.param_widgets =
                            WidgetsFor(ManagerToolParameters(item), 1)]
    /\ emitted' = Ran("_on_tool_selected")
    /\ UNCHANGED <<executor, procs, log_panel, catalogVars>>

\* the definition of the parameter the i-th widget was made for
ParamDefOf(p, i) ==
    LET parameters == ManagerToolParameters(p.selected_tool) IN
    parameters[CHOOSE k \in 1..Len(parameters) :
                  parameters[k].variable = p.param_widgets[i].variable]

\* _on_text_changed, _on_value_changed, _on_path_changed of the widgets:
\* the user changes the input of the i-th widget
OnValueChanged(i, value) ==
    /\ i \in 1..Len(panel.param_widgets)
    /\ value \in EditValues(ParamDefOf(panel, i))
    /\ panel' = [panel EXCEPT !.param_widgets[i].value = value]
    /\ emitted' = Ran("_on_value_changed")
    /\ UNCHANGED <<executor, procs, log_panel, catalogVars>>

\* beratools_widgets.py lines 86-88 with set_value of the widget classes
\* (152-154, 211-223, 432-434): int(value) for a number, str(value) if
\* value else "" for a text or a file
SetDefaultValue(p, i) ==
    LET param_def == ParamDefOf(p, i) IN
    IF param_def.type = "number" THEN PyInt(param_def.default.n)
    ELSE IF Truthy(param_def.default) THEN PyStr(StrOf(param_def.default))
    ELSE PyStr("")

\* lines 310-326: a click on Load Defaults
OnLoadDefaultsClicked ==
    /\ panel' =
          IF panel.selected_tool = "None" THEN panel
          ELSE [panel EXCEPT !.param_widgets =
                  [i \in 1..Len(panel.param_widgets) |->
                      [panel.param_widgets[i] EXCEPT
                          !.value = SetDefaultValue(panel, i)]]]
    /\ emitted' =
          [Ran("_on_load_defaults_clicked") EXCEPT !.status =
              IF panel.selected_tool = "None" THEN <<<<"No tool selected">>>>
              ELSE <<<<"Defaults loaded for", panel.selected_tool>>>>]
    /\ UNCHANGED <<executor, procs, log_panel, catalogVars>>

\* the outcome of _start_process: the panel, the processes, the status
\* messages and the command
Started(p, ps, status, command) ==
    [panel |-> p, procs |-> ps, status |-> status, command |-> command]

\* lines 433-464: the command is built and the QProcess created.  started
\* is the result of waitForStarted(3000); a QProcess that did not start is
\* dropped at line 461 and has no subprocess
BuildAndStart(p, ex, ps, started) ==
    LET command ==
            BuildCommand(ex, p.selected_tool_api, GetToolParameters(p))
    IN
    IF command.program = "None" \/ command.args = <<>>
    THEN Started(p, ps, <<<<"ERROR: Failed to build tool command">>>>,
                 command)
    ELSE IF started
    THEN Started([p EXCEPT !.current_process = Len(ps) + 1],
                 Append(ps, NewProcess(p.selected_tool, "Running")),
                 <<>>, command)
    ELSE Started([p EXCEPT !.current_process = 0, !.run_btn = TRUE,
                           !.stop_btn = FALSE],
                 Append(ps, NewProcess(p.selected_tool, "NotRunning")),
                 <<<<"ERROR: Failed to start process">>>>, command)

\* mutant of StartProcess: without the test of lines 416-419
StartProcessUnguarded(p, ex, ps, started) ==
    IF p.selected_tool_api \in {"None", ""}
    THEN Started(p, ps, <<<<"ERROR: No tool API available">>>>, NoCommand)
    ELSE IF GetToolParameters(p) = <<>>
    THEN Started(p, ps, <<<<"ERROR: No parameters to execute">>>>, NoCommand)
    ELSE BuildAndStart(p, ex, ps, started)

\* lines 414-464: _start_process
StartProcess(p, ex, ps, started) ==
    IF p.current_process # 0
    THEN Started(p, ps, <<<<"ERROR: A process is already running">>>>,
                 NoCommand)
    ELSE IF p.selected_tool_api \in {"None", ""}
    THEN Started(p, ps, <<<<"ERROR: No tool API available">>>>, NoCommand)
    ELSE IF GetToolParameters(p) = <<>>
    THEN Started(p, ps, <<<<"ERROR: No parameters to execute">>>>, NoCommand)
    ELSE BuildAndStart(p, ex, ps, started)

\* lines 349-358: the tests are passed
RunTool(started) ==
    LET r == StartProcess(panel, executor, procs, started) IN
    /\ panel' = [r.panel EXCEPT !.run_btn = FALSE, !.stop_btn = TRUE]
    /\ procs' = r.procs
    /\ emitted' = [Ran("_on_run_clicked") EXCEPT
                     !.status = <<<<"Running", panel.selected_tool>>>>
                                \o r.status,
                     !.command = r.command]

\* mutant of OnRunClicked: the buttons are set before the tests
OnRunClickedEager(started) ==
    /\ panel.run_btn
    /\ Len(procs) < MaxRuns
    /\ IF panel.selected_tool = "None" \/ GetToolParameters(panel) = <<>>
          \/ ValidateParameters(panel) # <<>>
       THEN /\ panel' = [panel EXCEPT !.run_btn = FALSE, !.stop_btn = TRUE]
            /\ procs' = procs
            /\ emitted' = [Ran("_on_run_clicked") EXCEPT
                             !.status = <<<<"ERROR">>>>,
                             !.errors = ValidateParameters(panel)]
       ELSE RunTool(started)
    /\ UNCHANGED <<executor, log_panel, catalogVars>>

\* lines 328-358: a click on Run, which is there to click when enabled
OnRunClicked(started) ==
    /\ panel.run_btn
    /\ Len(procs) < MaxRuns
    /\ IF panel.selected_tool = "None"
       THEN /\ emitted' = [Ran("_on_run_clicked") EXCEPT
                             !.status = <<<<"ERROR: No tool selected">>>>]
            /\ UNCHANGED <<panel, procs>>
       ELSE IF GetToolParameters(panel) = <<>>
       THEN /\ emitted' = [Ran("_on_run_clicked") EXCEPT
                             !.status =
                                <<<<"ERROR: No parameters available">>>>]
            /\ UNCHANGED <<panel, procs>>
       ELSE IF ValidateParameters(panel) # <<>>
       THEN /\ emitted' = [Ran("_on_run_clicked") EXCEPT
                             !.status = <<<<"ERROR: Validation failed">>>>,
                             !.errors = ValidateParameters(panel)]
            /\ UNCHANGED <<panel, procs>>
       ELSE RunTool(started)
    /\ UNCHANGED <<executor, log_panel, catalogVars>>

\* lines 583-591: a click on Stop.  terminate() asks the subprocess to
\* exit; that it does is ProcessExits
OnStopClicked ==
    /\ panel.stop_btn
    /\ panel' = [panel EXCEPT !.run_btn = TRUE, !.stop_btn = FALSE]
    /\ emitted' = Ran("_on_stop_clicked")
    /\ UNCHANGED <<executor, procs, log_panel, catalogVars>>

\* the subprocess of a QProcess exits, of itself or after terminate(); the
\* finished signal of the QProcess is then to be delivered
ProcessExits(pid, exit_code) ==
    /\ pid \in 1..Len(procs)
    /\ procs[pid].state = "Running"
    /\ procs' = [procs EXCEPT ![pid].state = "Exited",
                              ![pid].exit_code = exit_code]
    /\ UNCHANGED <<panel, executor, log_panel, emitted, catalogVars>>

\* lines 556-581: the output files _handle_tool_success prints
RECURSIVE OutputFiles(_, _)
OutputFiles(p, i) ==
    IF i > Len(p.param_widgets) THEN <<>>
    ELSE LET widget == p.param_widgets[i]
             parameters == ManagerToolParameters(p.selected_tool)
         IN  (IF \E k \in 1..Len(parameters) :
                    /\ parameters[k].variable = widget.variable
                    /\ parameters[k].output
              THEN <<WidgetGetValue(widget)>> ELSE <<>>)
             \o OutputFiles(p, i + 1)

\* lines 537-546: the messages of a finished tool
FinishedMessages(p, exit_code) ==
    IF exit_code = 0
    THEN [Ran("_handle_process_finished") EXCEPT
            !.status = <<<<"completed successfully", p.selected_tool>>>>,
            !.output = <<<<"[SUCCESS]", "Tool completed successfully">>>>,
            !.printed = OutputFiles(p, 1)]
    ELSE [Ran("_handle_process_finished") EXCEPT
            !.status = <<<<"Tool failed with exit code",
                           ToString(exit_code)>>>>,
            !.output = <<<<"[FAILURE]", "Tool failed with exit code",
                           ToString(exit_code)>>>>]

\* mutant of HandleProcessFinished: a failed tool leaves the process set
HandleProcessFinishedOnSuccess(pid) ==
    /\ pid \in 1..Len(procs)
    /\ procs[pid].state = "Exited"
    /\ procs[pid].handled = 0
    /\ panel.current_process # 0
    /\ emitted' =
          FinishedMessages(panel, procs[panel.current_process].exit_code)
    /\ panel' = IF procs[panel.current_process].exit_code = 0
                THEN [panel EXCEPT !.current_process = 0, !.run_btn = TRUE,
                                   !.stop_btn = FALSE]
                ELSE panel
    /\ procs' = [procs EXCEPT ![pid].state = "Finished", ![pid].handled = 1]
    /\ UNCHANGED <<executor, log_panel, catalogVars>>

\* lines 532-552: the finished signal of a QProcess is delivered to
\* _handle_process_finished, which asks current_process for the exit code
HandleProcessFinished(pid) ==
    /\ pid \in 1..Len(procs)
    /\ procs[pid].state = "Exited"
    /\ procs[pid].handled = 0
    /\ IF panel.current_process = 0
       THEN /\ emitted' = [Ran("_handle_process_finished") EXCEPT
                             !.raised = "AttributeError"]
            /\ panel' = panel
       ELSE /\ emitted' =
                 FinishedMessages(panel,
                                  procs[panel.current_process].exit_code)
            /\ panel' = [panel EXCEPT !.current_process = 0,
                                      !.run_btn = TRUE, !.stop_btn = FALSE]
    /\ procs' = [procs EXCEPT ![pid].state = "Finished", ![pid].handled = 1]
    /\ UNCHANGED <<executor, log_panel, catalogVars>>

\* lines 663-671 with 620-622: QProgressBar.setValue leaves the value alone
\* when it is given one outside minimum..maximum
SetProgress(lp, value) ==
    IF value \in 0..100 THEN [lp EXCEPT !.progress_bar = value] ELSE lp

\* lines 466-474: output of the subprocess is there to read;
\* progress_updated is connected to set_progress
HandleStdout(text) ==
    /\ panel.current_process # 0
    /\ procs[panel.current_process].state = "Running"
    /\ LET progress == ParseProgress(text) IN
       /\ emitted' = [Ran("_handle_stdout") EXCEPT !.output = <<text>>,
                                                    !.progress = progress]
       /\ log_panel' = IF progress = <<>> THEN log_panel
                       ELSE SetProgress(log_panel, progress[Len(progress)])
    /\ UNCHANGED <<panel, executor, procs, catalogVars>>

\* lines 476-482: error output of the subprocess is there to read
HandleStderr(text) ==
    /\ panel.current_process # 0
    /\ procs[panel.current_process].state = "Running"
    /\ emitted' = [Ran("_handle_stderr") EXCEPT
                     !.output = <<<<"[ERROR]">> \o text>>]
    /\ UNCHANGED <<panel, executor, procs, log_panel, catalogVars>>

\* lines 673-676: a click on Clear
ClearLog ==
    /\ log_panel' = [log_panel EXCEPT !.progress_bar = 0]
    /\ emitted' = Ran("clear_log")
    /\ UNCHANGED <<panel, executor, procs, catalogVars>>

NextPanel ==
    \/ \E item \in DOMAIN ToolDefs \cup Categories : OnToolSelected(item)
    \/ \E i \in 1..2, value \in {PyInt(0), PyStr(""), PyStr("gone.tif")} :
          OnValueChanged(i, value)
    \/ OnLoadDefaultsClicked
    \/ \E started \in BOOLEAN : OnRunClicked(started)
    \/ OnStopClicked
    \/ \E pid \in 1..MaxRuns, exit_code \in ExitCodes :
          ProcessExits(pid, exit_code)
    \/ \E pid \in 1..MaxRuns : HandleProcessFinished(pid)
    \/ \E text \in Chunks : HandleStdout(text)
    \/ \E text \in {<<Text>>} : HandleStderr(text)
    \/ ClearLog

SpecPanel == InitPanel /\ [][NextPanel]_vars

\* a subprocess exits in the end, and the event loop delivers the finished
\* signal of a QProcess
SpecPanelFair ==
    /\ SpecPanel
    /\ WF_vars(\E pid \in 1..MaxRuns, exit_code \in ExitCodes :
                  ProcessExits(pid, exit_code))
    /\ WF_vars(\E pid \in 1..MaxRuns : HandleProcessFinished(pid))

(***************************************************************************)
(* The executor used by itself.                                            *)
(***************************************************************************)
\* lines 105-112 of beratools_executor.py
SetCpuCores(cores) ==
    /\ executor' = [executor EXCEPT !.cpu_cores = cores]
    /\ emitted' = [Ran("set_cpu_cores") EXCEPT !.given = <<ToString(cores)>>]
    /\ UNCHANGED <<panel, procs, log_panel, catalogVars>>

\* lines 51-103 of beratools_executor.py, called with parameters of every
\* kind of value
CallBuildCommand(tool_api, parameters) ==
    /\ emitted' = [Ran("build_command") EXCEPT
                     !.command = BuildCommand(executor, tool_api, parameters)]
    /\ UNCHANGED <<panel, executor, procs, log_panel, catalogVars>>

NextExecutor ==
    \/ \E cores \in Cores : SetCpuCores(cores)
    \/ \E tool_api \in {"centerline", "footprint", "bare"},
          parameters \in CommandInputs :
          CallBuildCommand(tool_api, parameters)

SpecExecutor == InitPanel /\ [][NextExecutor]_vars

(***************************************************************************)
(* Properties.  mergeFromFile is getRampsFromFile, listRamps is            *)
(* getRampsForDisplay, buildLUT(name, channel, size) is                    *)
(* getLUTForRamp(channel, name, size); MissingName, DuplicateName and      *)
(* MissingChannels are the quits of lines 95, 97 and 102/104.              *)
(***************************************************************************)
RGB == {"red", "green", "blue"}

Merged == last.op = "getRampsFromFile"

\* the loop got to palette i of the file
Reached(i) ==
    /\ Merged
    /\ i \in 1..Len(last.pals)
    /\ last.at = 0 \/ i <= last.at

\* the loop went through palette i without leaving
Added(i) == Reached(i) /\ i # last.at

HasName(pal) == "name" \in DOMAIN pal

\* the names in the catalog when the loop gets to palette i: the palettes
\* before it were all added
NamesBefore(i) ==
    DOMAIN last.pre \cup {last.pals[k]["name"] : k \in 1..(i - 1)}

\* value is the table of size entries that truncates the piecewise-linear
\* interpolation of the control points toks, point i (from 0) at
\* x = i*255/(n-1), entry j (from 0) at x = j*255/(size-1)
IsTruncatedInterpolation(value, toks, size) ==
    LET n == Len(toks)
        c(i) == CHOOSE v \in 0..255 : NumeralOf[v] = toks[i + 1]
    IN  /\ n >= 1
        /\ \A i \in 1..n : IsNumber(toks[i])
        /\ Len(value) = size
        /\ \A j \in 0..(size - 1) :
              IF n = 1 \/ size = 1 THEN value[j + 1] = c(0)
              ELSE \E i \in 0..(n - 2) :
                     LET off == j * (n - 1) - i * (size - 1)
                         y == c(i) * (size - 1) + (c(i + 1) - c(i)) * off
                     IN  /\ 0 <= off /\ off <= size - 1
                         /\ value[j + 1] * (size - 1) <= y
                         /\ y < (value[j + 1] + 1) * (size - 1)

\* C1: for every ramp of the catalog, every channel red, green, blue and
\* every positive size, getLUTForRamp returns the truncated piecewise-linear
\* interpolation of that channel's own control points.
C1_LUTIsTruncatedInterpolation ==
    (/\ last.op = "getLUTForRamp"
     /\ last.name \in DOMAIN last.pre
     /\ last.code \in RGB
     /\ last.lutsize > 0)
    => /\ last.err = ""
       /\ IsTruncatedInterpolation(last.value,
              last.pre[last.name].description[last.code], last.lutsize)

\* C2: the table getLUTForRamp returns for a channel of a catalog ramp has
\* exactly lutsize entries, for every positive lutsize (1 and 257 included).
C2_LUTLengthIsSize ==
    (/\ last.op = "getLUTForRamp"
     /\ last.name \in DOMAIN last.pre
     /\ last.code \in RGB
     /\ last.lutsize > 0)
    => /\ last.err = ""
       /\ Len(last.value) = last.lutsize

LeftIncomplete(k) ==
    /\ HasName(last.pals[k])
    /\ last.pals[k]["name"] \in DOMAIN RAMP
    /\ last.pals[k]["name"] \notin NamesBefore(k)

C6_ChannelKeySetDecides ==
    Merged =>
        \A i \in 1..Len(last.pals) :
            (/\ Reached(i)
             /\ HasName(last.pals[i])
             /\ last.pals[i]["name"] \notin NamesBefore(i))
            => IF /\ "description" \in DOMAIN last.pals[i]
                  /\ DOMAIN last.pals[i]["description"] = RGB
               THEN Added(i)
               ELSE last.at = i /\ last.err = QuitScheme

C8_NoNonNumericTokenStored ==
    \A n \in DOMAIN RAMP :
        \A c \in DOMAIN RAMP[n].description :
            \A t \in 1..Len(RAMP[n].description[c]) :
                IsNumber(RAMP[n].description[c][t])

\* C8 amended: getRampsFromFile does not look at the tokens of a channel
\* list: every palette it adds is stored with its red, green and blue lists
\* exactly as the file gives them, non-numeric tokens included, and a
\* palette with a new name, the key list line 101 accepts and all three
\* channels is added whatever its tokens are.
C8_ChannelListsStoredUnchecked ==
    Merged =>
        \A i \in 1..Len(last.pals) :
            /\ Added(i) =>
                  \A c \in RGB :
                      RAMP[last.pals[i]["name"]].description[c]
                        = last.pals[i]["description"][c]
            /\ (/\ Reached(i)
                /\ keysAreLists
                /\ HasName(last.pals[i])
                /\ last.pals[i]["name"] \notin NamesBefore(i)
                /\ "description" \in DOMAIN last.pals[i]
                /\ RGB \subseteq DOMAIN last.pals[i]["description"]
                /\ last.pals[i]["name"] \in DOMAIN last.pals[i]
                /\ last.pals[i][last.pals[i]["name"]]["description"]
                     = ChannelKeys)
               => Added(i)

\* C8 witness: a call returned normally and added a palette whose green list
\* holds a non-numeric token.
C8_Witness ==
    /\ Merged
    /\ last.err = ""
    /\ \E i \in 1..Len(last.pals) :
          /\ \E t \in 1..Len(last.pals[i]["description"]["green"]) :
                ~IsNumber(last.pals[i]["description"]["green"][t])
          /\ RAMP[last.pals[i]["name"]].description["green"]
               = last.pals[i]["description"]["green"]

C10_MergedPalettesUsable ==
    (Merged /\ last.err = "") =>
        \A i \in 1..Len(last.pals) :
            LET pal == last.pals[i]
                name == pal["name"]
                listed == RampsForDisplay(RAMP, rampKeys)
            IN  /\ name \in DOMAIN RAMP
                /\ \A c \in RGB :
                      RAMP[name].description[c] = pal["description"][c]
                /\ \A f \in {"author", "comments", "type"} :
                      RAMP[name][f] = IF f \in DOMAIN pal THEN pal[f] ELSE <<>>
                /\ \E j \in 1..Len(listed) : listed[j][1] = name
                /\ \A c \in RGB :
                      LUTForRamp(RAMP, c, name, 256).err = ""

\* getLUTForRamp was called for a channel of a ramp of the catalog
ChannelCall ==
    /\ last.op = "getLUTForRamp"
    /\ last.name \in DOMAIN last.pre
    /\ last.code \in RGB
    /\ last.code \in DOMAIN last.pre[last.name].description
    /\ last.lutsize > 0

\* the control points of that channel, as stored, and their number
CalledPoints == last.pre[last.name].description[last.code]

AllNumbers(toks) == \A i \in 1..Len(toks) : IsNumber(toks[i])

PointValue(tok) == CHOOSE v \in 0..255 : NumeralOf[v] = tok

\* C11: getLUTForRamp fails with a KeyError for the name when the name is
\* not in the catalog (UnknownRamp) and with a KeyError for the channel when
\* the channel is not red, green or blue (UnknownChannel); in both cases no
\* table is returned, and the catalog is unchanged.
C11_UnknownRampOrChannelFails ==
    last.op = "getLUTForRamp" =>
        /\ RAMP = last.pre
        /\ last.name \notin DOMAIN last.pre =>
              /\ last.err = KeyError
              /\ last.key = last.name
              /\ last.value = <<>>
        /\ (last.name \in DOMAIN last.pre /\ last.code \notin RGB) =>
              /\ last.err = KeyError
              /\ last.key = last.code
              /\ last.value = <<>>

\* C12: when lutsize is the number of control points of the channel the
\* table is exactly the control points in order; so for Greys red and Blues
\* green with lutsize 9.
C12_SizeOfControlPointsGivesControlPoints ==
    /\ (ChannelCall /\ AllNumbers(CalledPoints)
            /\ last.lutsize = Len(CalledPoints))
       => /\ last.err = ""
          /\ last.value
               = [i \in 1..Len(CalledPoints) |-> PointValue(CalledPoints[i])]
    /\ (last.op = "getLUTForRamp" /\ last.name = "Greys"
            /\ last.code = "red" /\ last.lutsize = 9)
       => last.value = <<255, 240, 217, 189, 150, 115, 82, 37, 0>>
    /\ (last.op = "getLUTForRamp" /\ last.name = "Blues"
            /\ last.code = "green" /\ last.lutsize = 9)
       => last.value = <<251, 235, 219, 202, 174, 146, 113, 81, 48>>

\* C13: for a channel of at least two control points and a lutsize of at
\* least two, the first entry of the table is the first control point and
\* the last entry the last control point.
C13_EndpointsAreControlPoints ==
    (ChannelCall /\ AllNumbers(CalledPoints) /\ Len(CalledPoints) >= 2
        /\ last.lutsize >= 2)
    => /\ last.err = ""
       /\ Len(last.value) = last.lutsize
       /\ last.value[1] = PointValue(CalledPoints[1])
       /\ last.value[last.lutsize]
            = PointValue(CalledPoints[Len(CalledPoints)])

\* C14: for every built-in ramp and channel every entry of the table of
\* lutsize 256 is in 0..255 and between the two control points that bound
\* the segment its coordinate falls in.
C14_BuiltinTableWithinSegmentBounds ==
    (ChannelCall /\ last.name \in DOMAIN SeedRAMP /\ last.lutsize = 256)
    => LET n == Len(CalledPoints)
           c(i) == PointValue(CalledPoints[i + 1])
       IN  /\ last.err = ""
           /\ Len(last.value) = 256
           /\ \A j \in 0..255 :
                 /\ last.value[j + 1] \in 0..255
                 /\ \E i \in 0..(n - 2) :
                       LET off == j * (n - 1) - i * 255 IN
                       /\ 0 <= off /\ off <= 255
                       /\ \/ c(i) <= last.value[j + 1]
                             /\ last.value[j + 1] <= c(i + 1)
                          \/ c(i + 1) <= last.value[j + 1]
                             /\ last.value[j + 1] <= c(i)

\* C19: for a channel with exactly one control point v the table has
\* lutsize entries, every one of them v.
C19_SinglePointGivesConstantTable ==
    (ChannelCall /\ Len(CalledPoints) = 1 /\ AllNumbers(CalledPoints))
    => /\ last.err = ""
       /\ Len(last.value) = last.lutsize
       /\ \A j \in 1..last.lutsize :
             last.value[j] = PointValue(CalledPoints[1])

Listed == last.op = "getRampsForDisplay"

\* the label "name (classification)": the name, then the classification in
\* parentheses
Label(name, classification) ==
    IF classification = <<>> THEN <<name, "()">>
    ELSE IF Len(classification) = 1
         THEN <<name, "(" \o classification[1] \o ")">>
         ELSE <<name, "(" \o classification[1]>>
              \o SubSeq(classification, 2, Len(classification) - 1)
              \o <<classification[Len(classification)] \o ")">>

C17_ListsEachRampOnce ==
    Listed =>
        /\ Len(last.value) = Cardinality(DOMAIN RAMP)
        /\ {last.value[i][1] : i \in 1..Len(last.value)} = DOMAIN RAMP
        /\ \A i \in 1..Len(last.value) :
              last.value[i][2]
                = Label(last.value[i][1], RAMP[last.value[i][1]].type)
        /\ \E i \in 1..Len(last.value) :
              last.value[i] = <<"Blues", <<"Blues", "(Sequential)">>>>

\* C17 witness: the list of a catalog with two merged ramps, one of them
\* without a type.
C17_Witness ==
    /\ Listed
    /\ {"NewA", "NewB"} \subseteq DOMAIN RAMP
    /\ \E i \in 1..Len(last.value) :
          last.value[i] = <<"NewB", <<"NewB", "()">>>>
    /\ \E i \in 1..Len(last.value) :
          last.value[i] = <<"NewA", <<"NewA", "(Custom)">>>>

\* the place of a name among the keys of the catalog, in insertion order
KeyPlace(name) == CHOOSE k \in 1..Len(rampKeys) : rampKeys[k] = name

\* the place of the first ramp of a type
FirstPlaceOfType(type) ==
    CHOOSE k \in 1..Len(rampKeys) :
        /\ RAMP[rampKeys[k]].type = type
        /\ \A m \in 1..(k - 1) : RAMP[rampKeys[m]].type # type

C20_ClassificationFromEitherKey ==
    Merged =>
        \A i \in 1..Len(last.pals) :
            Added(i) =>
                LET pal == last.pals[i] IN
                RAMP[pal["name"]].type
                  = IF "type" \in DOMAIN pal THEN pal["type"]
                    ELSE IF "classification" \in DOMAIN pal
                         THEN pal["classification"]
                         ELSE <<>>

\* C20 amended: the type of a merged ramp is what the palette gives under
\* "type", and '' when it has no "type", whether or not it has a
\* "classification"; getRampsForDisplay lists the ramp with that type.
C20_ClassificationFromTypeKeyOnly ==
    Merged =>
        \A i \in 1..Len(last.pals) :
            Added(i) =>
                LET pal == last.pals[i]
                    type == IF "type" \in DOMAIN pal THEN pal["type"] ELSE <<>>
                    listed == RampsForDisplay(RAMP, rampKeys)
                IN  /\ RAMP[pal["name"]].type = type
                    /\ \E j \in 1..Len(listed) :
                          listed[j] = <<pal["name"], Label(pal["name"], type)>>

\* C20 witness: a palette that gives its classification under
\* "classification" and has no "type" was merged, and its type is ''.
C20_Witness ==
    /\ Merged
    /\ \E i \in 1..Len(last.pals) :
          /\ Added(i)
          /\ "classification" \in DOMAIN last.pals[i]
          /\ last.pals[i]["classification"] # <<>>
          /\ "type" \notin DOMAIN last.pals[i]
          /\ RAMP[last.pals[i]["name"]].type = <<>>

\* the outcome of the finished call of reader r is the outcome of the same
\* call made alone on the catalog
AsAlone(r) ==
    IF readers[r].op = "getRampsForDisplay"
    THEN readers[r].value = RampsForDisplay(RAMP, rampKeys)
    ELSE LET alone == LUTForRamp(RAMP, readers[r].code, readers[r].name,
                                 readers[r].lutsize)
         IN  /\ readers[r].err = alone.err
             /\ readers[r].key = alone.key
             /\ readers[r].value = alone.value

\* C16: with no merge in flight, getLUTForRamp and getRampsForDisplay calls
\* of several readers run in any interleaving: each finished call has the
\* outcome the same call has when run alone on the catalog, and no step
\* taken while a reader is inside a call changes the catalog.
C16_ConcurrentReadsAsAlone ==
    /\ [](\A r \in Readers : readers[r].pc = "done" => AsAlone(r))
    /\ [][~AllIdle => (RAMP' = RAMP /\ rampKeys' = rampKeys)]_vars

\* C16 witness: on a catalog with a merged ramp, one reader has its list
\* while another, which entered getLUTForRamp meanwhile, has its table.
C16_Witness ==
    /\ "NewB" \in DOMAIN RAMP
    /\ \E r, q \in Readers :
          /\ readers[r].pc = "done"
          /\ readers[r].op = "getRampsForDisplay"
          /\ Len(readers[r].value) = Len(rampKeys)
          /\ readers[q].pc = "done"
          /\ readers[q].op = "getLUTForRamp"
          /\ readers[q].value = <<7, 7, 7>>

BuiltinNames ==
    {"Blues", "Greys", "RdBu", "RdYlBu", "RdYlGn", "Reds", "Spectral",
     "YlGnBu", "YlOrRd"}

Active == {pid \in 1..Len(procs) : procs[pid].state \in {"Running", "Exited"}}

\* this step is a click on Run that passed the tests of lines 330-347
RunStep ==
    /\ panel.run_btn
    /\ emitted'.handler = "_on_run_clicked"
    /\ emitted'.status # <<>>
    /\ emitted'.status[1][1] = "Running"

\* this step created a QProcess whose subprocess runs
StartedOne ==
    /\ Len(procs') = Len(procs) + 1
    /\ procs'[Len(procs')].state = "Running"

\* C22: at most one subprocess is started and not yet finished, and it is
\* current_process; a click on Run while current_process is set, also
\* after Stop and before the finished signal is handled, creates no
\* QProcess and reports that a process is already running.
C22_AtMostOneSubprocess ==
    /\ [](/\ Cardinality(Active) <= 1
          /\ \A pid \in Active : panel.current_process = pid)
    /\ [][(RunStep /\ panel.current_process # 0)
            => /\ procs' = procs
               /\ panel'.current_process = panel.current_process
               /\ emitted'.status[Len(emitted'.status)]
                    = <<"ERROR: A process is already running">>]_vars

\* C22 witness: Run was clicked after Stop while the subprocess was still
\* there, and the click was answered with the error.
C22_Witness ==
    /\ emitted.handler = "_on_run_clicked"
    /\ Len(emitted.status) = 2
    /\ emitted.status[2] = <<"ERROR: A process is already running">>
    /\ panel.current_process = 1
    /\ procs[1].state = "Running"
    /\ Len(procs) = 1

\* C23: when a click on Run passes the tests and no subprocess ends up
\* running (no tool API, no command, no start), then after the handler
\* current_process is None, Run is enabled and Stop is disabled.
C23_FailedRunLeavesRunEnabled ==
    [][(RunStep /\ panel.current_process = 0 /\ ~StartedOne)
        => /\ panel'.current_process = 0
           /\ panel'.run_btn
           /\ ~panel'.stop_btn]_vars

ExpectedJson(parameters) ==
    CASE parameters = <<>> -> "{}"
      [] parameters = <<<<"flag", PyBool(TRUE)>>, <<"ratio", PyFloat(25)>>,
                        <<"mode", PyNone>>>>
           -> "{\"flag\": true, \"ratio\": 2.5, \"mode\": \"None\"}"
      [] parameters = <<<<"n", PyInt(3)>>, <<"name", PyStr("a")>>>>
           -> "{\"n\": 3, \"name\": \"a\"}"
      [] parameters = <<<<"flag", PyBool(FALSE)>>>> -> "{\"flag\": false}"
      [] parameters = <<<<"n", PyInt(0)>>, <<"name", PyStr("")>>>>
           -> "{\"n\": 0, \"name\": \"\"}"

\* C26: build_command returns (None, None) when the BERATools directory was
\* not found or the script of the tool does not exist; otherwise "python"
\* and [script, "-i", JSON of the parameters, "-p", cpu_cores as a string,
\* "-c", "GUI", "-l", "INFO"], bool, int and float values kept and the
\* others made strings; cpu_cores is -1 until set_cpu_cores is called and
\* then the value it was last called with.
C26_BuildCommand ==
    /\ [](emitted.handler = "__init__" => executor.cpu_cores = -1)
    /\ [][IF emitted'.handler = "set_cpu_cores"
          THEN ToString(executor'.cpu_cores) = emitted'.given[1]
          ELSE executor'.cpu_cores = executor.cpu_cores]_vars
    /\ [](emitted.handler = "build_command" =>
            LET c == emitted.command IN
            IF ~executor.beratools_dir
               \/ c.tool_api \notin {"centerline", "bare"}
            THEN c.program = "None" /\ c.args = <<>>
            ELSE /\ c.program = "python"
                 /\ c.args = <<"beratools/tools/" \o c.tool_api \o ".py",
                               "-i", ExpectedJson(c.parameters), "-p",
                               ToString(executor.cpu_cores), "-c", "GUI",
                               "-l", "INFO">>)

\* C26 witness: after set_cpu_cores(4) a command was built for parameters
\* that hold a bool, a float and None.
C26_Witness ==
    /\ emitted.handler = "build_command"
    /\ emitted.command.args
         = <<"beratools/tools/centerline.py", "-i",
             "{\"flag\": true, \"ratio\": 2.5, \"mode\": \"None\"}", "-p",
             "4", "-c", "GUI", "-l", "INFO">>

\* the numbers, in tenths, of the "N%" tokens of a chunk
Percentages(text) == SelectSeq(text, LAMBDA token : token.kind = "pct")

\* C27: for a chunk of output _parse_progress emits progress_updated at most
\* once, with the integer part of the number of the last "N%" token when
\* that is at most 100 (100 for "100.5%"), and not at all when it is above
\* 100 or the chunk has no such token; the value of the progress bar is
\* always in 0..100.
C27_ProgressWithinRange ==
    /\ log_panel.progress_bar \in 0..100
    /\ emitted.handler = "_handle_stdout" =>
          LET numbers == Percentages(emitted.output[1]) IN
          /\ Len(emitted.progress) <= 1
          /\ \A k \in 1..Len(emitted.progress) :
                emitted.progress[k] \in 0..100
          /\ emitted.progress # <<>> =>
                /\ numbers # <<>>
                /\ emitted.progress[1] * 10 <= numbers[Len(numbers)].tenths
                /\ numbers[Len(numbers)].tenths
                     < (emitted.progress[1] + 1) * 10
                /\ log_panel.progress_bar = emitted.progress[1]
          /\ emitted.progress = <<>> =>
                \/ numbers = <<>>
                \/ numbers[Len(numbers)].tenths >= 1010

\* C27 witness: a chunk with "10%" and then "99.9%" set the bar to 99.
C27_Witness ==
    /\ emitted.handler = "_handle_stdout"
    /\ emitted.output = <<<<Pct(100), Text, Pct(999)>>>>
    /\ emitted.progress = <<99>>
    /\ log_panel.progress_bar = 99

\* C28: after every handler Run is enabled exactly when current_process is
\* None and Stop is enabled exactly when it is not.
C28_ButtonsFollowProcess ==
    /\ panel.run_btn <=> panel.current_process = 0
    /\ panel.stop_btn <=> panel.current_process # 0

\* the variables of the output parameters of a tool
OutputVariables(tool) ==
    {ToolDefs[tool].parameters[k].variable :
        k \in {k \in 1..Len(ToolDefs[tool].parameters) :
                  ToolDefs[tool].parameters[k].output}}

\* C29: the status message of a subprocess that finished with exit code 0
\* names the tool that was selected when Run was clicked, and the output
\* files reported are those of the output parameters of that tool, also
\* when another tool was selected meanwhile.
C29_CompletionNamesStartedTool ==
    [][\A pid \in 1..Len(procs) :
          (procs[pid].handled = 0 /\ procs'[pid].handled = 1
             /\ procs[pid].exit_code = 0)
          => /\ emitted'.status
                  = <<<<"completed successfully", procs[pid].tool>>>>
             /\ {emitted'.printed[k][1] : k \in 1..Len(emitted'.printed)}
                  = OutputVariables(procs[pid].tool)]_vars

\* C30: after a click on Run no "Required parameter empty" is reported for
\* a required parameter of type number whose widget holds a number, 0
\* included; it is reported only for a value that is None or ''.
C30_ZeroIsNotEmpty ==
    (emitted.handler = "_on_run_clicked" /\ HasTool(panel.selected_tool)) =>
        \A k \in 1..Len(ToolDefs[panel.selected_tool].parameters) :
            LET param_def == ToolDefs[panel.selected_tool].parameters[k]
                reported ==
                    \E e \in 1..Len(emitted.errors) :
                        emitted.errors[e]
                          = <<"Required parameter empty", param_def.label>>
            IN  \A i \in 1..Len(panel.param_widgets) :
                   panel.param_widgets[i].variable = param_def.variable =>
                      LET value == panel.param_widgets[i].value IN
                      /\ (param_def.type = "number" /\ ~param_def.optional
                            /\ value.kind \in {"int", "float"})
                         => ~reported
                      /\ reported =>
                            (value.kind = "none"
                               \/ (value.kind = "str" /\ value.s = ""))

====
